---- MODULE Spec2Model ----
(***************************************************************************)
(* The order workflow of the e-commerce backend: OrderService (create,     *)
(* updateStatus, updatePaymentStatus, cancelOrder), the ProductService     *)
(* operations it calls (findById, update, updateStock, delete) and         *)
(* CartService.clearCart, over the four tables they touch.                 *)
(*                                                                         *)
(* Every request is a process that runs its handler one await at a time;   *)
(* between two awaits the steps of other requests may interleave, as they  *)
(* do on the event loop over a shared database with no transaction.        *)
(*                                                                         *)
(* Repository.save(entity) is modelled as "the row becomes the entity":    *)
(* TypeORM writes every column in which the entity differs from the row,   *)
(* so a stale column of an entity read earlier overwrites a newer value.   *)
(*                                                                         *)
(* Money is counted in hundredths of a cent (1/10000 of a dollar), so that *)
(* subtotal * 0.08 is an exact integer and the rounding of a decimal(10,2) *)
(* column is visible.  8% of a whole number of cents never lies on a half  *)
(* cent, so the floating-point error of the source (about 1e-13) cannot    *)
(* change what the column stores.                                          *)
(***************************************************************************)
EXTENDS Integers, Sequences, FiniteSets, TLC

(* ---------------------------- bounds ---------------------------------- *)

\* Longest orderItems list of a createOrder request.
MaxItems == 2
\* Largest quantity of a request item.
MaxQty == 2
\* Most negative quantity of a request item is -MaxNegQty (@IsNumber lets it in).
MaxNegQty == 1
\* No createOrder starts once this many Order rows exist.
MaxOrders == 2
\* No request starts once this many have started.
MaxRequests == 3

(* ---------------------------- data ------------------------------------ *)

Dollars(d) == d * 10000

Cents(c) == c * 100

\* The requests that may run at the same time.
Procs == {1, 2}

Users == {1, 2}

\* The products of the catalogue; rows are never removed (delete is soft).
ProductIds == {1, 2}

\* Product ids no row has.
MissingProductIds == {3}

\* ProductStatus of product.entity.ts.
ProductStatus == {"active", "inactive", "out_of_stock"}

\* The statuses UpdateOrderStatusDto accepts.
OrderStatuses ==
  {"pending", "confirmed", "processing", "shipped", "delivered", "cancelled", "refunded"}

\* The payment statuses UpdatePaymentStatusDto accepts.
PaymentStatuses == {"pending", "paid", "failed", "refunded"}

\* CreateOrderItemDto: productId and a quantity that only has to be a number.
Quantities == (0 - MaxNegQty)..MaxQty

CreateOrderItemDto == [productId : ProductIds \cup MissingProductIds, quantity : Quantities]

RECURSIVE SeqsUpTo(_, _)
SeqsUpTo(S, n) ==
  IF n = 0 THEN {<<>>}
  ELSE LET shorter == SeqsUpTo(S, n - 1)
       IN shorter \cup {Append(s, x) : s \in {t \in shorter : Len(t) = n - 1}, x \in S}

\* CreateOrderDto.orderItems: any array of items, the empty one included.
CreateOrderDtos == SeqsUpTo(CreateOrderItemDto, MaxItems)

NoProduct ==
  [price |-> 0, stockQuantity |-> 0, salesCount |-> 0, status |-> "none",
   viewCount |-> 0, isActive |-> FALSE]

NoOrder ==
  [userId |-> 0, subtotal |-> 0, shippingCost |-> 0, taxAmount |-> 0, totalAmount |-> 0,
   status |-> "none", paymentStatus |-> "none", paymentId |-> "undefined"]

\* UpdatePaymentStatusDto.paymentId: an optional string; "undefined" stands for
\* the absent field (and for the empty column), "" is the empty string.
PaymentIds == {"undefined", "", "pay_1", "pay_2"}

\* if (updatePaymentStatusDto.paymentId): a string is truthy unless it is empty.
Truthy(paymentId) == paymentId # "undefined" /\ paymentId # ""

\* No UpdateProductDto.
\* No Cart row: what cartRepository.findOne returns when nothing matches.
NoCartItem == [userId |-> 0, productId |-> 0, quantity |-> 0]

NoDto == [none |-> TRUE]

RECURSIVE SumSeq(_)
SumSeq(s) == IF s = <<>> THEN 0 ELSE Head(s) + SumSeq(Tail(s))

(* ------------------------- pure functions ------------------------------ *)

\* Product.isInStock
IsInStock(product) == product.stockQuantity > 0 /\ product.status = "active"

\* A validation pass that lets every quantity through.
NoStockCheck(product, quantity) == FALSE

\* create, validation loop: product.stockQuantity < item.quantity
InsufficientStockForItem(product, quantity) == product.stockQuantity < quantity

\* A stock check that also refuses a quantity equal to the stock.
StockNotAbove(product, quantity) == product.stockQuantity <= quantity

\* updateStock: product.stockQuantity < quantity
InsufficientStock(product, quantity) == product.stockQuantity < quantity

\* A line item that takes no price from the product.
NoItemPrice(product) == 0

\* const itemPrice = product.price
ItemPrice(product) == product.price

\* const itemTotal = itemPrice * item.quantity
ItemTotal(itemPrice, quantity) == itemPrice * quantity

\* Free shipping from 100.00 on, not above it.
ShippingCostFrom100(subtotal) == IF subtotal >= Dollars(100) THEN 0 ELSE Dollars(10)

\* const shippingCost = subtotal > 100 ? 0 : 10
ShippingCost(subtotal) == IF subtotal > Dollars(100) THEN 0 ELSE Dollars(10)

\* const taxAmount = subtotal * 0.08 (exact: subtotal is a whole number of cents)
TaxAmount(subtotal) == (subtotal * 8) \div 100

\* A total that leaves the shipping cost out.
TotalWithoutShipping(subtotal, shippingCost, taxAmount) == subtotal + taxAmount

\* const totalAmount = subtotal + shippingCost + taxAmount
TotalAmount(subtotal, shippingCost, taxAmount) == subtotal + shippingCost + taxAmount

\* A decimal(10,2) column: the value is rounded to a whole number of cents,
\* half away from zero (PostgreSQL numeric).
DecimalColumn(x) ==
  IF x >= 0 THEN ((x + 50) \div 100) * 100 ELSE 0 - (((0 - x) + 50) \div 100) * 100

\* orderRepository.create({...}): the entity as computed, before any column rounds it.
OrderCreate(userId, subtotal) ==
  [userId |-> userId,
   subtotal |-> subtotal,
   shippingCost |-> ShippingCost(subtotal),
   taxAmount |-> TaxAmount(subtotal),
   totalAmount |-> TotalAmount(subtotal, ShippingCost(subtotal), TaxAmount(subtotal)),
   status |-> "pending", paymentStatus |-> "pending", paymentId |-> "undefined"]

\* The Order row that save(order) leaves: the amounts as their columns store them.
OrderRow(order) ==
  [order EXCEPT !.subtotal = DecimalColumn(@), !.shippingCost = DecimalColumn(@),
                !.taxAmount = DecimalColumn(@), !.totalAmount = DecimalColumn(@)]

(* ----------------------------- state ----------------------------------- *)

VARIABLES
  productRepository,    \* [ProductIds -> product row]
  orderRepository,      \* sequence of Order rows; an order's id is its index
  orderItemRepository,  \* sequence of OrderItem rows
  cartRepository,       \* set of Cart rows [userId, productId, quantity]
  proc,                 \* [Procs -> the request a process runs and its local variables]
  requests              \* the number of requests started so far

vars ==
  <<productRepository, orderRepository, orderItemRepository, cartRepository, proc, requests>>

db == <<productRepository, orderRepository, orderItemRepository, cartRepository>>

Idle ==
  [op |-> "none", pc |-> "idle", res |-> "none", userId |-> 0, orderItems |-> <<>>,
   i |-> 0, product |-> NoProduct, orderItemsData |-> <<>>, subtotal |-> 0,
   order |-> NoOrder, savedOrder |-> 0, id |-> 0, orderId |-> 0,
   arg |-> "none", arg2 |-> "undefined",
   dto |-> NoDto, stockBefore |-> <<>>, listing |-> [orders |-> <<>>, total |-> 0],
   stats |-> <<>>, cartItem |-> NoCartItem]


TypeOK ==
  /\ DOMAIN productRepository = ProductIds
  /\ \A o \in DOMAIN orderRepository : orderRepository[o].userId \in Users
  /\ \A k \in DOMAIN orderItemRepository :
       orderItemRepository[k].orderId \in DOMAIN orderRepository
  /\ \A p \in Procs : proc[p].pc \in
       {"idle", "done", "failed",
        "validate_find", "validate_view", "price_find", "price_view", "order_save",
        "item_save", "stock_find", "stock_view", "stock_save", "clear_cart",
        "cancel_find", "restore_find", "restore_view", "update_find", "update_view",
        "update_save", "cancel_save", "status_find", "status_save",
        "payment_find", "payment_save", "product_find", "product_view", "product_save",
        "delete_find", "delete_save", "list_query", "list_all_query",
        "stats_find", "cart_product_find", "cart_product_view", "cart_find",
        "cart_save", "cart_item_find", "cart_item_save"}

\* The stock the catalogue starts with: 1 of product 1, 2 of product 2.
InitialStock(id) == id

\* The database after seeding: product 1 at 20.00 with 1 in stock, product 2 at
\* 50.00 with 2 in stock, both active and never viewed; nothing ordered yet.
Init ==
  /\ productRepository =
       [id \in ProductIds |->
          [price |-> IF id = 1 THEN Dollars(20) ELSE Dollars(50),
           stockQuantity |-> InitialStock(id), salesCount |-> 0, status |-> "active",
           viewCount |-> 0, isActive |-> TRUE]]
  /\ orderRepository = <<>>
  /\ orderItemRepository = <<>>
  /\ cartRepository =
       {[userId |-> 1, productId |-> 1, quantity |-> 1],
        [userId |-> 2, productId |-> 1, quantity |-> 1],
        [userId |-> 2, productId |-> 2, quantity |-> 1]}
  /\ proc = [p \in Procs |-> Idle]
  /\ requests = 0

(* --------------------------- shared steps ------------------------------ *)

\* A process takes a new request when it runs none.
Free(p) == proc[p].pc \in {"idle", "done", "failed"}

\* Bound of the model: no request starts once MaxRequests have started.
MayStart(p) == Free(p) /\ requests < MaxRequests

\* The local variables of a request that starts.
Started(op, pc) == [Idle EXCEPT !.op = op, !.pc = pc, !.i = 1]

\* The request is over: what it was, how it ended and the order it saved stay;
\* its working variables are dropped.
Finished(L, pc, res) ==
  [Idle EXCEPT !.op = L.op, !.pc = pc, !.res = res, !.savedOrder = L.savedOrder]

Throw(p, error) == proc' = [proc EXCEPT ![p] = Finished(proc[p], "failed", error)]

Return(p) == proc' = [proc EXCEPT ![p] = Finished(proc[p], "done", "ok")]

\* ProductService.findById: product.viewCount += 1
Viewed(product) == [product EXCEPT !.viewCount = @ + 1]

\* productRepository.save(product)
SaveProduct(id, product) ==
  productRepository' = [productRepository EXCEPT ![id] = product]


(* ------------------------ OrderService.create -------------------------- *)

\* The loop that follows the validation loop, or the step after both when the
\* request has no items.
AfterLoop(L, loopPc, nextPc) == IF L.i < Len(L.orderItems) THEN loopPc ELSE nextPc

\* The stock and the sales counter of every product, as a request finds them.
StockLevels ==
  [id \in ProductIds |->
     [stockQuantity |-> productRepository[id].stockQuantity,
      salesCount |-> productRepository[id].salesCount]]

\* create(userId, createOrderDto) is called; stockBefore remembers the stock levels
\* the call starts from (a history variable, read by no step).
CreateStart(p, userId, orderItems) ==
  /\ MayStart(p)
  /\ Len(orderRepository) < MaxOrders
  /\ proc' = [proc EXCEPT ![p] =
       [Started("create", IF orderItems = <<>> THEN "order_save" ELSE "validate_find")
          EXCEPT !.userId = userId, !.orderItems = orderItems,
                 !.order = IF orderItems = <<>> THEN OrderCreate(userId, 0) ELSE NoOrder,
                 !.stockBefore = StockLevels]]
  /\ requests' = requests + 1
  /\ UNCHANGED db

\* Validation loop, findById: productRepository.findOne
CreateValidateFind(p) ==
  LET L == proc[p]
      item == L.orderItems[L.i]
  IN /\ L.pc = "validate_find"
     /\ IF item.productId \notin ProductIds
        THEN Throw(p, "NOT_FOUND")
        ELSE proc' = [proc EXCEPT ![p].product = productRepository[item.productId],
                                  ![p].pc = "validate_view"]
     /\ UNCHANGED <<db, requests>>

\* Validation loop, findById: the viewCount save; then the two stock checks.
CreateValidateView(p) ==
  LET L == proc[p]
      item == L.orderItems[L.i]
      product == Viewed(L.product)
  IN /\ L.pc = "validate_view"
     /\ SaveProduct(item.productId, product)
     /\ IF ~IsInStock(product)
        THEN Throw(p, "OUT_OF_STOCK")
        ELSE IF InsufficientStockForItem(product, item.quantity)
        THEN Throw(p, "INSUFFICIENT_STOCK")
        ELSE proc' = [proc EXCEPT ![p].product = NoProduct,
                                  ![p].i = IF L.i < Len(L.orderItems) THEN L.i + 1 ELSE 1,
                                  ![p].pc = AfterLoop(L, "validate_find", "price_find")]
     /\ UNCHANGED <<orderRepository, orderItemRepository, cartRepository, requests>>

\* Totals loop, findById: productRepository.findOne
CreatePriceFind(p) ==
  LET L == proc[p]
      item == L.orderItems[L.i]
  IN /\ L.pc = "price_find"
     /\ proc' = [proc EXCEPT ![p].product = productRepository[item.productId],
                             ![p].pc = "price_view"]
     /\ UNCHANGED <<db, requests>>

\* Totals loop, findById: the viewCount save; then the price snapshot and the
\* running subtotal; after the last item the totals and orderRepository.create.
CreatePriceView(p) ==
  LET L == proc[p]
      item == L.orderItems[L.i]
      product == Viewed(L.product)
      itemPrice == ItemPrice(product)
      subtotal == L.subtotal + ItemTotal(itemPrice, item.quantity)
      last == L.i = Len(L.orderItems)
  IN /\ L.pc = "price_view"
     /\ SaveProduct(item.productId, product)
     /\ proc' = [proc EXCEPT
          ![p].product = NoProduct,
          ![p].subtotal = subtotal,
          ![p].orderItemsData = Append(@,
             [productId |-> item.productId, quantity |-> item.quantity,
              price |-> itemPrice]),
          ![p].i = IF last THEN 1 ELSE L.i + 1,
          ![p].order = IF last THEN OrderCreate(L.userId, subtotal) ELSE NoOrder,
          ![p].pc = IF last THEN "order_save" ELSE "price_find"]
     /\ UNCHANGED <<orderRepository, orderItemRepository, cartRepository, requests>>

\* const savedOrder = await this.orderRepository.save(order)
CreateOrderSave(p) ==
  LET L == proc[p]
  IN /\ L.pc = "order_save"
     /\ orderRepository' = Append(orderRepository, OrderRow(L.order))
     /\ proc' = [proc EXCEPT ![p].savedOrder = Len(orderRepository) + 1,
                             ![p].pc = IF L.orderItemsData = <<>> THEN "clear_cart"
                                       ELSE "item_save"]
     /\ UNCHANGED <<productRepository, orderItemRepository, cartRepository, requests>>

\* The OrderItem row orderItemRepository.save leaves for itemData.
OrderItemRow(itemData, orderId) ==
  [orderId |-> orderId, productId |-> itemData.productId,
   quantity |-> itemData.quantity, price |-> DecimalColumn(itemData.price)]

\* Write loop: await this.orderItemRepository.save(orderItem)
CreateItemSave(p) ==
  LET L == proc[p]
  IN /\ L.pc = "item_save"
     /\ orderItemRepository' =
          Append(orderItemRepository, OrderItemRow(L.orderItemsData[L.i], L.savedOrder))
     /\ proc' = [proc EXCEPT ![p].pc = "stock_find"]
     /\ UNCHANGED <<productRepository, orderRepository, cartRepository, requests>>

\* updateStock (from the write loop or from PATCH products/:id/stock), findById:
\* productRepository.findOne
UpdateStockFind(p) ==
  LET L == proc[p]
      itemData == L.orderItemsData[L.i]
  IN /\ L.pc = "stock_find"
     /\ IF itemData.productId \notin ProductIds
        THEN Throw(p, "NOT_FOUND")
        ELSE proc' = [proc EXCEPT ![p].product = productRepository[itemData.productId],
                                  ![p].pc = "stock_view"]
     /\ UNCHANGED <<db, requests>>

\* A decrement of the stock that counts no sale.
StockTakenUncounted(product, quantity) ==
  [product EXCEPT !.stockQuantity = @ - quantity]

\* updateStock: stockQuantity -= quantity, salesCount += quantity, and
\* out_of_stock when nothing is left.
StockTaken(product, quantity) ==
  [product EXCEPT !.stockQuantity = @ - quantity,
                  !.salesCount = @ + quantity,
                  !.status = IF product.stockQuantity - quantity = 0
                             THEN "out_of_stock" ELSE @]

\* updateStock, findById: the viewCount save; then updateStock's own stock check
\* and the decrement of the entity in memory.
UpdateStockView(p) ==
  LET L == proc[p]
      itemData == L.orderItemsData[L.i]
      product == Viewed(L.product)
  IN /\ L.pc = "stock_view"
     /\ SaveProduct(itemData.productId, product)
     /\ IF InsufficientStock(product, itemData.quantity)
        THEN Throw(p, "INSUFFICIENT_STOCK")
        ELSE proc' = [proc EXCEPT ![p].product = StockTaken(product, itemData.quantity),
                                  ![p].pc = "stock_save"]
     /\ UNCHANGED <<orderRepository, orderItemRepository, cartRepository, requests>>

\* A write loop that is left after its first item.
AfterFirstWrite(i, n) == "clear_cart"

\* for (const itemData of orderItemsData) { ... }; clearCart: after item i of n
\* the write loop saves the next line item, and after the last the cart is cleared.
AfterWrite(i, n) == IF i < n THEN "item_save" ELSE "clear_cart"

\* updateStock: return this.productRepository.save(product); the write loop of
\* create goes on with its next item, the endpoint returns.
UpdateStockSave(p) ==
  LET L == proc[p]
      itemData == L.orderItemsData[L.i]
  IN /\ L.pc = "stock_save"
     /\ SaveProduct(itemData.productId, L.product)
     /\ IF L.op = "create"
        THEN proc' = [proc EXCEPT
               ![p].product = NoProduct,
               ![p].i = IF L.i < Len(L.orderItemsData) THEN L.i + 1 ELSE 1,
               ![p].pc = AfterWrite(L.i, Len(L.orderItemsData))]
        ELSE Return(p)
     /\ UNCHANGED <<orderRepository, orderItemRepository, cartRepository, requests>>

\* A clearing that removes the rows of every user.
CartEmptied(cart, userId) == {}

\* CartService.clearCart: cartRepository.delete({ userId })
CartCleared(cart, userId) == {row \in cart : row.userId # userId}

\* await this.cartService.clearCart(userId); the order is then read back and returned.
CreateClearCart(p) ==
  LET L == proc[p]
  IN /\ L.pc = "clear_cart"
     /\ cartRepository' = CartCleared(cartRepository, L.userId)
     /\ Return(p)
     /\ UNCHANGED <<productRepository, orderRepository, orderItemRepository, requests>>

Create(p) ==
  \/ CreateValidateFind(p)
  \/ CreateValidateView(p)
  \/ CreatePriceFind(p)
  \/ CreatePriceView(p)
  \/ CreateOrderSave(p)
  \/ CreateItemSave(p)
  \/ UpdateStockFind(p)
  \/ UpdateStockView(p)
  \/ UpdateStockSave(p)
  \/ CreateClearCart(p)


(* --------------------- ProductService endpoints ------------------------ *)

\* PATCH products/:id/stock: updateStock(id, quantity) is called.
UpdateStockStart(p, id, quantity) ==
  /\ MayStart(p)
  /\ proc' = [proc EXCEPT ![p] =
       [Started("updateStock", "stock_find")
          EXCEPT !.id = id,
                 !.orderItemsData = <<[productId |-> id, quantity |-> quantity, price |-> 0]>>]]
  /\ requests' = requests + 1
  /\ UNCHANGED db

\* Object.assign(product, updateProductDto)
Assign(product, updateProductDto) ==
  [f \in DOMAIN product |->
     IF f \in DOMAIN updateProductDto THEN updateProductDto[f] ELSE product[f]]

\* PATCH products/:id: update(id, updateProductDto) is called.
ProductUpdateStart(p, id, updateProductDto) ==
  /\ MayStart(p)
  /\ proc' = [proc EXCEPT ![p] =
       [Started("update", "update_find") EXCEPT !.id = id, !.dto = updateProductDto]]
  /\ requests' = requests + 1
  /\ UNCHANGED db

\* update (from the endpoint or from cancelOrder), findById: productRepository.findOne
ProductUpdateFind(p) ==
  LET L == proc[p]
  IN /\ L.pc = "update_find"
     /\ IF L.id \notin ProductIds
        THEN Throw(p, "NOT_FOUND")
        ELSE proc' = [proc EXCEPT ![p].product = productRepository[L.id],
                                  ![p].pc = "update_view"]
     /\ UNCHANGED <<db, requests>>

\* update, findById: the viewCount save; then Object.assign on the entity read.
ProductUpdateView(p) ==
  LET L == proc[p]
      product == Viewed(L.product)
  IN /\ L.pc = "update_view"
     /\ SaveProduct(L.id, product)
     /\ proc' = [proc EXCEPT ![p].product = Assign(product, L.dto),
                             ![p].pc = "update_save"]
     /\ UNCHANGED <<orderRepository, orderItemRepository, cartRepository, requests>>

\* update: return this.productRepository.save(product); cancelOrder goes on with
\* its next line item, the endpoint returns.
ProductUpdateSave(p) ==
  LET L == proc[p]
  IN /\ L.pc = "update_save"
     /\ SaveProduct(L.id, L.product)
     /\ IF L.op = "cancel"
        THEN proc' = [proc EXCEPT
               ![p].product = NoProduct, ![p].dto = NoDto, ![p].id = 0,
               ![p].i = IF L.i < Len(L.orderItemsData) THEN L.i + 1 ELSE 1,
               ![p].pc = IF L.i < Len(L.orderItemsData) THEN "restore_find"
                         ELSE "cancel_save"]
        ELSE Return(p)
     /\ UNCHANGED <<orderRepository, orderItemRepository, cartRepository, requests>>

\* DELETE products/:id: delete(id) is called.
ProductDeleteStart(p, id) ==
  /\ MayStart(p)
  /\ proc' = [proc EXCEPT ![p] = [Started("delete", "delete_find") EXCEPT !.id = id]]
  /\ requests' = requests + 1
  /\ UNCHANGED db

\* delete: productRepository.findOne (no view is counted)
ProductDeleteFind(p) ==
  LET L == proc[p]
  IN /\ L.pc = "delete_find"
     /\ IF L.id \notin ProductIds
        THEN Throw(p, "NOT_FOUND")
        ELSE proc' = [proc EXCEPT ![p].product = productRepository[L.id],
                                  ![p].pc = "delete_save"]
     /\ UNCHANGED <<db, requests>>

\* delete: product.isActive = false; save (the products of the model have no images)
ProductDeleteSave(p) ==
  LET L == proc[p]
  IN /\ L.pc = "delete_save"
     /\ SaveProduct(L.id, [L.product EXCEPT !.isActive = FALSE])
     /\ Return(p)
     /\ UNCHANGED <<orderRepository, orderItemRepository, cartRepository, requests>>


(* ------------------ OrderService: status and cancel -------------------- *)

\* Order ids a request may name: the rows that can exist and one that never does.
RequestedOrderIds == 1..(MaxOrders + 1)

\* order.orderItems of OrderService.findById: the line items of the order, in
\* the order they were saved.
OrderItemsOf(orderId) ==
  LET idx == {k \in DOMAIN orderItemRepository : orderItemRepository[k].orderId = orderId}
      RECURSIVE Take(_, _)
      Take(k, acc) ==
        IF k > Len(orderItemRepository) THEN acc
        ELSE Take(k + 1, IF k \in idx THEN Append(acc, orderItemRepository[k]) ELSE acc)
  IN Take(1, <<>>)

\* updateStatus(id, { status }) is called.
UpdateStatusStart(p, id, status) ==
  /\ MayStart(p)
  /\ proc' = [proc EXCEPT ![p] =
       [Started("updateStatus", "status_find") EXCEPT !.orderId = id, !.arg = status]]
  /\ requests' = requests + 1
  /\ UNCHANGED db

\* updateStatus: const order = await this.findById(id)
UpdateStatusFind(p) ==
  LET L == proc[p]
  IN /\ L.pc = "status_find"
     /\ IF L.orderId \notin DOMAIN orderRepository
        THEN Throw(p, "NOT_FOUND")
        ELSE proc' = [proc EXCEPT ![p].order = orderRepository[L.orderId],
                                  ![p].pc = "status_save"]
     /\ UNCHANGED <<db, requests>>

\* A status change that lets no order leave delivered, cancelled or refunded.
StatusSetUnlessFinal(order, status) ==
  IF order.status \in {"delivered", "cancelled", "refunded"} THEN order
  ELSE [order EXCEPT !.status = status]

\* order.status = updateOrderStatusDto.status
StatusSet(order, status) == [order EXCEPT !.status = status]

\* updateStatus: order.status = status; return this.orderRepository.save(order)
UpdateStatusSave(p) ==
  LET L == proc[p]
  IN /\ L.pc = "status_save"
     /\ orderRepository' =
          [orderRepository EXCEPT ![L.orderId] = OrderRow(StatusSet(L.order, L.arg))]
     /\ Return(p)
     /\ UNCHANGED <<productRepository, orderItemRepository, cartRepository, requests>>

\* updatePaymentStatus(id, { paymentStatus, paymentId }) is called.
UpdatePaymentStatusStart(p, id, paymentStatus, paymentId) ==
  /\ MayStart(p)
  /\ proc' = [proc EXCEPT ![p] =
       [Started("updatePaymentStatus", "payment_find")
          EXCEPT !.orderId = id, !.arg = paymentStatus, !.arg2 = paymentId]]
  /\ requests' = requests + 1
  /\ UNCHANGED db

\* updatePaymentStatus: const order = await this.findById(id)
UpdatePaymentStatusFind(p) ==
  LET L == proc[p]
  IN /\ L.pc = "payment_find"
     /\ IF L.orderId \notin DOMAIN orderRepository
        THEN Throw(p, "NOT_FOUND")
        ELSE proc' = [proc EXCEPT ![p].order = orderRepository[L.orderId],
                                  ![p].pc = "payment_save"]
     /\ UNCHANGED <<db, requests>>

\* order.paymentStatus = paymentStatus; if (paymentId) order.paymentId = paymentId
PaymentStatusSet(order, paymentStatus, paymentId) ==
  [order EXCEPT !.paymentStatus = paymentStatus,
                !.paymentId = IF Truthy(paymentId) THEN paymentId ELSE @]

\* updatePaymentStatus: the two assignments and the save
UpdatePaymentStatusSave(p) ==
  LET L == proc[p]
      order == PaymentStatusSet(L.order, L.arg, L.arg2)
  IN /\ L.pc = "payment_save"
     /\ orderRepository' = [orderRepository EXCEPT ![L.orderId] = OrderRow(order)]
     /\ Return(p)
     /\ UNCHANGED <<productRepository, orderItemRepository, cartRepository, requests>>

\* cancelOrder(id) is called; stockBefore remembers the stock levels the call
\* starts from (a history variable, read by no step).
CancelStart(p, id) ==
  /\ MayStart(p)
  /\ proc' = [proc EXCEPT ![p] =
       [Started("cancel", "cancel_find") EXCEPT !.orderId = id, !.stockBefore = StockLevels]]
  /\ requests' = requests + 1
  /\ UNCHANGED db

\* A status check that refuses delivered orders only.
CannotCancelDelivered(order) == order.status = "delivered"

\* cancelOrder: order.status === 'delivered' || order.status === 'cancelled'
CannotCancel(order) == order.status = "delivered" \/ order.status = "cancelled"

\* cancelOrder: const order = await this.findById(id); then the status check.
CancelFind(p) ==
  LET L == proc[p]
      order == orderRepository[L.orderId]
      items == OrderItemsOf(L.orderId)
  IN /\ L.pc = "cancel_find"
     /\ IF L.orderId \notin DOMAIN orderRepository
        THEN Throw(p, "NOT_FOUND")
        ELSE IF CannotCancel(order)
        THEN Throw(p, "INVALID_STATE")
        ELSE proc' = [proc EXCEPT
               ![p].order = order,
               ![p].orderItemsData =
                  [k \in DOMAIN items |->
                     [productId |-> items[k].productId, quantity |-> items[k].quantity,
                      price |-> items[k].price]],
               ![p].pc = IF items = <<>> THEN "cancel_save" ELSE "restore_find"]
     /\ UNCHANGED <<db, requests>>

\* Restore loop, findById: productRepository.findOne
CancelRestoreFind(p) ==
  LET L == proc[p]
      orderItem == L.orderItemsData[L.i]
  IN /\ L.pc = "restore_find"
     /\ proc' = [proc EXCEPT ![p].product = productRepository[orderItem.productId],
                             ![p].pc = "restore_view"]
     /\ UNCHANGED <<db, requests>>

\* A restoration of the stock that leaves the sales counter as it is.
StockRestoredUncounted(product, quantity) ==
  [product EXCEPT !.stockQuantity = @ + quantity]

\* cancelOrder: stockQuantity += quantity, salesCount -= quantity
StockRestored(product, quantity) ==
  [product EXCEPT !.stockQuantity = @ + quantity, !.salesCount = @ - quantity]

\* Restore loop, findById: the viewCount save; then the restored entity is handed
\* to productService.update as its dto.
CancelRestoreView(p) ==
  LET L == proc[p]
      orderItem == L.orderItemsData[L.i]
      product == Viewed(L.product)
  IN /\ L.pc = "restore_view"
     /\ SaveProduct(orderItem.productId, product)
     /\ proc' = [proc EXCEPT ![p].product = NoProduct,
                             ![p].dto = StockRestored(product, orderItem.quantity),
                             ![p].id = orderItem.productId,
                             ![p].pc = "update_find"]
     /\ UNCHANGED <<orderRepository, orderItemRepository, cartRepository, requests>>

\* A cancellation that removes the Order row (orderRepository.remove(order)).
OrderRemoved(orders, id, order) == SubSeq(orders, 1, id - 1) \o SubSeq(orders, id + 1, Len(orders))

\* order.status = 'cancelled'; this.orderRepository.save(order): the table after it
OrderCancelled(orders, id, order) ==
  [orders EXCEPT ![id] = OrderRow([order EXCEPT !.status = "cancelled"])]

\* cancelOrder: order.status = 'cancelled'; return this.orderRepository.save(order)
CancelSave(p) ==
  LET L == proc[p]
  IN /\ L.pc = "cancel_save"
     /\ orderRepository' = OrderCancelled(orderRepository, L.orderId, L.order)
     /\ Return(p)
     /\ UNCHANGED <<productRepository, orderItemRepository, cartRepository, requests>>


(* -------------------- OrderService: the listings ----------------------- *)

\* An optional field of a DTO: absent, or present with a value of S.
OptionalField(f, S) == {<<>>} \cup {f :> v : v \in S}

\* OrderFilterDto: every field is optional (sortBy is left to its default,
\* createdAt, the order in which the rows were inserted).
OrderFilterDtos ==
  {status @@ paymentStatus @@ sortOrder @@ page @@ limit :
     status \in OptionalField("status", {"pending", "shipped"}),
     paymentStatus \in OptionalField("paymentStatus", {"paid"}),
     sortOrder \in OptionalField("sortOrder", {"ASC"}),
     page \in OptionalField("page", {0, 1, 2}),
     limit \in OptionalField("limit", {1, 101})}

\* const { f = default } = filterDto
Field(filterDto, f, default) == IF f \in DOMAIN filterDto THEN filterDto[f] ELSE default

\* const { page = 1 } = filterDto
Page(filterDto) == Field(filterDto, "page", 1)

\* const { limit = 20 } = filterDto
Limit(filterDto) == Field(filterDto, "limit", 20)

\* const offset = (page - 1) * limit
Offset(filterDto) == (Page(filterDto) - 1) * Limit(filterDto)

\* The query of findAll and findByUser over the orders of `owners`: the andWhere
\* of each filter that is set, orderBy createdAt, skip and take, getManyAndCount.
\* orders are the ids of the page, total counts every matching order.
ListOrders(owners, filterDto) ==
  LET status == Field(filterDto, "status", "undefined")
      paymentStatus == Field(filterDto, "paymentStatus", "undefined")
      sortOrder == Field(filterDto, "sortOrder", "DESC")
      limit == Limit(filterDto)
      matching ==
        {o \in DOMAIN orderRepository :
           /\ orderRepository[o].userId \in owners
           /\ Truthy(status) => orderRepository[o].status = status
           /\ Truthy(paymentStatus) => orderRepository[o].paymentStatus = paymentStatus}
      RECURSIVE Ascending(_, _)
      Ascending(o, acc) ==
        IF o > Len(orderRepository) THEN acc
        ELSE Ascending(o + 1, IF o \in matching THEN Append(acc, o) ELSE acc)
      asc == Ascending(1, <<>>)
      sorted == IF sortOrder = "ASC" THEN asc
                ELSE [k \in DOMAIN asc |-> asc[Len(asc) + 1 - k]]
      offset == Offset(filterDto)
      last == IF offset + limit < Len(sorted) THEN offset + limit ELSE Len(sorted)
  IN [orders |-> SubSeq(sorted, offset + 1, last), total |-> Cardinality(matching)]

\* A listing for a user that is the query of findAll: no where on the owner.
FindAllForUser(userId, filterDto) == ListOrders(Users, filterDto)

\* findByUser: .where('order.userId = :userId', { userId })
FindByUser(userId, filterDto) == ListOrders({userId}, filterDto)

\* GET orders/user: findByUser(req.user.id, filterDto) is called.
FindByUserStart(p, userId, filterDto) ==
  /\ MayStart(p)
  /\ proc' = [proc EXCEPT ![p] =
       [Started("findByUser", "list_query") EXCEPT !.userId = userId, !.dto = filterDto]]
  /\ requests' = requests + 1
  /\ UNCHANGED db

\* findByUser: const [orders, total] = await queryBuilder.getManyAndCount(); the
\* response stays with the request it answers.  The database refuses a negative
\* OFFSET, and the query fails (500).
FindByUserQuery(p) ==
  LET L == proc[p]
  IN /\ L.pc = "list_query"
     /\ IF Offset(L.dto) < 0
        THEN Throw(p, "QUERY_FAILED")
        ELSE proc' = [proc EXCEPT ![p] =
               [Finished(L, "done", "ok") EXCEPT !.userId = L.userId, !.dto = L.dto,
                                                !.listing = FindByUser(L.userId, L.dto)]]
     /\ UNCHANGED <<db, requests>>

\* findAll: the query of findByUser without the where on the owner
FindAll(filterDto) == ListOrders(Users, filterDto)

\* GET orders: findAll(filterDto) is called.
FindAllStart(p, filterDto) ==
  /\ MayStart(p)
  /\ proc' = [proc EXCEPT ![p] = [Started("findAll", "list_all_query") EXCEPT !.dto = filterDto]]
  /\ requests' = requests + 1
  /\ UNCHANGED db

\* findAll: const [orders, total] = await queryBuilder.getManyAndCount()
FindAllQuery(p) ==
  LET L == proc[p]
  IN /\ L.pc = "list_all_query"
     /\ IF Offset(L.dto) < 0
        THEN Throw(p, "QUERY_FAILED")
        ELSE proc' = [proc EXCEPT ![p] =
               [Finished(L, "done", "ok") EXCEPT !.dto = L.dto, !.listing = FindAll(L.dto)]]
     /\ UNCHANGED <<db, requests>>


(* --------------------- OrderService.getOrderStats ---------------------- *)

\* A quotient of two amounts, kept as the fraction it is.
Quotient(num, den) == [num |-> num, den |-> den]

\* The statistics of `orders`: the body of getOrderStats after the find.
\* ordersByStatus has an entry for each status some order has.
OrderStats(orders) ==
  LET totalOrders == Len(orders)
      totalRevenue == SumSeq([o \in DOMAIN orders |-> orders[o].totalAmount])
  IN [totalOrders |-> totalOrders,
      totalRevenue |-> totalRevenue,
      averageOrderValue |-> IF totalOrders > 0 THEN Quotient(totalRevenue, totalOrders)
                            ELSE Quotient(0, 1),
      ordersByStatus |->
        [status \in {orders[o].status : o \in DOMAIN orders} |->
           Cardinality({o \in DOMAIN orders : orders[o].status = status})]]

\* Whether an order is neither cancelled nor refunded.
IsOpen(order) == order.status \notin {"cancelled", "refunded"}

\* Statistics that leave cancelled and refunded orders out.
StatsOfOpenOrders(orders) == OrderStats(SelectSeq(orders, IsOpen))

\* getOrderStats: the statistics of the orders orderRepository.find() returns
GetOrderStats(orders) == OrderStats(orders)

\* GET orders/stats: getOrderStats() is called.
GetOrderStatsStart(p) ==
  /\ MayStart(p)
  /\ proc' = [proc EXCEPT ![p] = Started("getOrderStats", "stats_find")]
  /\ requests' = requests + 1
  /\ UNCHANGED db

\* getOrderStats: const orders = await this.orderRepository.find(); the rest is
\* computed without another await, and the response stays with its request.
GetOrderStatsFind(p) ==
  LET L == proc[p]
  IN /\ L.pc = "stats_find"
     /\ proc' = [proc EXCEPT ![p] =
          [Finished(L, "done", "ok") EXCEPT !.stats = GetOrderStats(orderRepository)]]
     /\ UNCHANGED <<db, requests>>


(* ---------------------------- CartService ------------------------------ *)

\* AddToCartDto: a product and a quantity of at least 1 (@Min(1)); the size and
\* the colour are left out in the model.
AddToCartDtos == [productId : ProductIds, quantity : 1..MaxQty]

\* UpdateCartItemDto: a quantity of at least 1 (@Min(1)).
UpdateCartItemDtos == [quantity : 1..MaxQty]

\* The id of a Cart row in the model: its owner and its product.
CartItemIds == Users \X ProductIds

\* cartRepository.findOne({ where: { userId, productId, ... } })
FindCartItem(userId, productId) ==
  LET rows == {row \in cartRepository : row.userId = userId /\ row.productId = productId}
  IN IF rows = {} THEN NoCartItem ELSE CHOOSE row \in rows : TRUE

\* cartRepository.save(cartItem): the row of that id is written.
SaveCartItem(cartItem) ==
  cartRepository' =
    {row \in cartRepository :
       ~(row.userId = cartItem.userId /\ row.productId = cartItem.productId)}
      \union {cartItem}

\* POST cart/add: addToCart(userId, addToCartDto) is called.
AddToCartStart(p, userId, addToCartDto) ==
  /\ MayStart(p)
  /\ proc' = [proc EXCEPT ![p] =
       [Started("addToCart", "cart_product_find")
          EXCEPT !.userId = userId, !.dto = addToCartDto]]
  /\ requests' = requests + 1
  /\ UNCHANGED db

\* addToCart, findById: productRepository.findOne
AddToCartProductFind(p) ==
  LET L == proc[p]
  IN /\ L.pc = "cart_product_find"
     /\ IF L.dto.productId \notin ProductIds
        THEN Throw(p, "NOT_FOUND")
        ELSE proc' = [proc EXCEPT ![p].product = productRepository[L.dto.productId],
                                  ![p].pc = "cart_product_view"]
     /\ UNCHANGED <<db, requests>>

\* addToCart, findById: the viewCount save; then the two stock checks, of the
\* quantity of the request against the stock.
AddToCartProductView(p) ==
  LET L == proc[p]
      product == Viewed(L.product)
  IN /\ L.pc = "cart_product_view"
     /\ SaveProduct(L.dto.productId, product)
     /\ IF ~IsInStock(product)
        THEN Throw(p, "OUT_OF_STOCK")
        ELSE IF product.stockQuantity < L.dto.quantity
        THEN Throw(p, "INSUFFICIENT_STOCK")
        ELSE proc' = [proc EXCEPT ![p].product = product, ![p].pc = "cart_find"]
     /\ UNCHANGED <<orderRepository, orderItemRepository, cartRepository, requests>>

\* addToCart: cartRepository.findOne of the row the user has of the product
AddToCartFind(p) ==
  LET L == proc[p]
  IN /\ L.pc = "cart_find"
     /\ proc' = [proc EXCEPT ![p].cartItem = FindCartItem(L.userId, L.dto.productId),
                               ![p].pc = "cart_save"]
     /\ UNCHANGED <<db, requests>>

\* The row addToCart saves: the existing row with the quantity added to it, or
\* a new row of the quantity.
CartItemAdded(existingCartItem, userId, addToCartDto) ==
  IF existingCartItem # NoCartItem
  THEN [existingCartItem EXCEPT !.quantity = @ + addToCartDto.quantity]
  ELSE [userId |-> userId, productId |-> addToCartDto.productId,
        quantity |-> addToCartDto.quantity]

\* addToCart: cartRepository.save
AddToCartSave(p) ==
  LET L == proc[p]
  IN /\ L.pc = "cart_save"
     /\ SaveCartItem(CartItemAdded(L.cartItem, L.userId, L.dto))
     /\ Return(p)
     /\ UNCHANGED <<productRepository, orderRepository, orderItemRepository, requests>>

\* PATCH cart/:id: updateCartItem(cartItemId, userId, updateCartItemDto) is called.
UpdateCartItemStart(p, cartItemId, userId, updateCartItemDto) ==
  /\ MayStart(p)
  /\ proc' = [proc EXCEPT ![p] =
       [Started("updateCartItem", "cart_item_find")
          EXCEPT !.id = cartItemId, !.userId = userId, !.dto = updateCartItemDto]]
  /\ requests' = requests + 1
  /\ UNCHANGED db

\* updateCartItem: cartRepository.findOne({ where: { id, userId }, relations:
\* ['product'] }), then the check of the new quantity against the stock.
UpdateCartItemFind(p) ==
  LET L == proc[p]
      cartItem == IF L.id[1] = L.userId THEN FindCartItem(L.id[1], L.id[2]) ELSE NoCartItem
  IN /\ L.pc = "cart_item_find"
     /\ IF cartItem = NoCartItem
        THEN Throw(p, "NOT_FOUND")
        ELSE IF productRepository[cartItem.productId].stockQuantity < L.dto.quantity
        THEN Throw(p, "INSUFFICIENT_STOCK")
        ELSE proc' = [proc EXCEPT ![p].cartItem = cartItem, ![p].pc = "cart_item_save"]
     /\ UNCHANGED <<db, requests>>

\* updateCartItem: Object.assign(cartItem, updateCartItemDto), cartRepository.save
UpdateCartItemSave(p) ==
  LET L == proc[p]
  IN /\ L.pc = "cart_item_save"
     /\ SaveCartItem(Assign(L.cartItem, L.dto))
     /\ Return(p)
     /\ UNCHANGED <<productRepository, orderRepository, orderItemRepository, requests>>

AddToCart(p) ==
  \/ AddToCartProductFind(p) \/ AddToCartProductView(p)
  \/ AddToCartFind(p) \/ AddToCartSave(p)

UpdateCartItem(p) == UpdateCartItemFind(p) \/ UpdateCartItemSave(p)


(* -------------------------- specifications ----------------------------- *)

\* The prices PATCH products/:id sets in the model.
Prices == {Dollars(20), Dollars(50), Dollars(100) + Cents(1)}

\* No request is running.
Quiet == \A q \in Procs : Free(q)

\* createOrder starts, for a user of `users` and a request body of `dtos`.
StartCreate(p, users, dtos) ==
  \E userId \in users, orderItems \in dtos : CreateStart(p, userId, orderItems)

\* cancelOrder starts.
StartCancel(p) == \E id \in RequestedOrderIds : CancelStart(p, id)

\* updateStatus or updatePaymentStatus starts.
StartStatus(p, statuses, paymentStatuses, paymentIds) ==
  \/ \E id \in RequestedOrderIds, status \in statuses : UpdateStatusStart(p, id, status)
  \/ \E id \in RequestedOrderIds, paymentStatus \in paymentStatuses,
        paymentId \in paymentIds :
       UpdatePaymentStatusStart(p, id, paymentStatus, paymentId)

\* PATCH products/:id/stock starts.
StartStock(p) ==
  \E id \in ProductIds \cup MissingProductIds, quantity \in Quantities :
    UpdateStockStart(p, id, quantity)

\* DELETE products/:id starts.
StartDelete(p) == \E id \in ProductIds \cup MissingProductIds : ProductDeleteStart(p, id)

\* PATCH products/:id with a new price starts.
StartPrice(p) ==
  \E id \in ProductIds \cup MissingProductIds, price \in Prices :
    ProductUpdateStart(p, id, [price |-> price])

\* The next await of a running cancelOrder.
Cancel(p) ==
  \/ CancelFind(p)
  \/ CancelRestoreFind(p)
  \/ CancelRestoreView(p)
  \/ ProductUpdateFind(p)
  \/ ProductUpdateView(p)
  \/ ProductUpdateSave(p)
  \/ CancelSave(p)

\* The next await of a running updateStatus or updatePaymentStatus.
Status(p) ==
  \/ UpdateStatusFind(p)
  \/ UpdateStatusSave(p)
  \/ UpdatePaymentStatusFind(p)
  \/ UpdatePaymentStatusSave(p)

\* The next await of a running soft delete.
Delete(p) == ProductDeleteFind(p) \/ ProductDeleteSave(p)

\* The request bodies of the race: product 1 only, in positive quantities.
RaceDtos == SeqsUpTo([productId : {1}, quantity : 1..MaxQty], MaxItems)

\* Checkout, one request after the other: user 1 creates and cancels orders
\* while the product API soft-deletes products.
NextCheckout ==
  \/ Quiet /\ (StartCreate(1, {1}, CreateOrderDtos) \/ StartCancel(1) \/ StartDelete(1))
  \/ Create(1) \/ Cancel(1) \/ Delete(1)

SpecCheckout == Init /\ [][NextCheckout]_vars

\* The life of an order, one request after the other: user 1 creates orders, the
\* workflow ships, delivers, pays and cancels them, and prices change.
NextTotals ==
  \/ Quiet /\ \/ StartCreate(1, {1}, CreateOrderDtos)
              \/ StartCancel(1)
              \/ StartStatus(1, {"shipped", "delivered"}, {"paid"}, {"undefined", "pay_1"})
              \/ StartPrice(1)
  \/ Create(1) \/ Cancel(1) \/ Status(1)

SpecTotals == Init /\ [][NextTotals]_vars

\* Checkouts of product 1 at the same time, interleaved at every await.
NextRace == \E p \in Procs : StartCreate(p, {1}, RaceDtos) \/ Create(p)

SpecRace == Init /\ [][NextRace]_vars

\* Checkouts of both users, one request after the other, from the carts they have.
NextCart == (Quiet /\ StartCreate(1, Users, CreateOrderDtos)) \/ Create(1)

SpecCart == Init /\ [][NextCart]_vars

\* The request bodies of the order workflow: one or two items of product 2.
WorkflowDtos == SeqsUpTo([productId : {2}, quantity : 1..MaxQty], MaxItems) \ {<<>>}

\* The order workflow, one request after the other: user 1 orders product 2, and
\* the orders are given every status and payment status, with and without a
\* payment reference, and cancelled.
NextWorkflow ==
  \/ Quiet /\ \/ StartCreate(1, {1}, WorkflowDtos)
              \/ StartCancel(1)
              \/ StartStatus(1, OrderStatuses, PaymentStatuses, PaymentIds)
  \/ Create(1) \/ Cancel(1) \/ Status(1)

SpecWorkflow == Init /\ [][NextWorkflow]_vars

\* GET orders/user starts.
StartList(p) ==
  \E userId \in Users, filterDto \in OrderFilterDtos : FindByUserStart(p, userId, filterDto)

\* GET orders starts.
StartListAll(p) == \E filterDto \in OrderFilterDtos : FindAllStart(p, filterDto)

\* The listings, one request after the other: both users order product 2, orders
\* are shipped and paid, and each user lists their orders under every filter.
NextListing ==
  \/ Quiet /\ \/ StartCreate(1, Users, WorkflowDtos)
              \/ StartStatus(1, {"shipped"}, {"paid"}, {"undefined"})
              \/ StartList(1)
              \/ StartListAll(1)
  \/ Create(1) \/ Status(1) \/ FindByUserQuery(1) \/ FindAllQuery(1)

SpecListing == Init /\ [][NextListing]_vars

\* The statistics, one request after the other: user 1 orders product 2, orders
\* are shipped, refunded, paid and cancelled, and the statistics are read.
NextStats ==
  \/ Quiet /\ \/ StartCreate(1, {1}, WorkflowDtos)
              \/ StartCancel(1)
              \/ StartStatus(1, {"shipped", "refunded"}, {"paid"}, {"undefined"})
              \/ GetOrderStatsStart(1)
  \/ Create(1) \/ Cancel(1) \/ Status(1) \/ GetOrderStatsFind(1)

SpecStats == Init /\ [][NextStats]_vars

\* The stock API, one request after the other: PATCH products/:id/stock with
\* every quantity, between the orders and cancellations of user 1.
NextStock ==
  \/ Quiet /\ (StartStock(1) \/ StartCreate(1, {1}, WorkflowDtos) \/ StartCancel(1))
  \/ Create(1) \/ Cancel(1)

SpecStock == Init /\ [][NextStock]_vars

\* The request bodies of a simple order: one item of product 2.
SingleItemDtos == {<<[productId |-> 2, quantity |-> quantity]>> : quantity \in 1..MaxQty}

\* No createOrder is running.
NoCreateRunning == \A q \in Procs : proc[q].op = "create" => Free(q)

\* Cancellations at the same time: user 1 orders product 2 while nothing else
\* runs, and cancelOrder requests arrive while no order is being created and
\* interleave with one another at every await.
NextCancelRace ==
  \E p \in Procs :
    \/ Quiet /\ StartCreate(p, {1}, SingleItemDtos)
    \/ NoCreateRunning /\ StartCancel(p)
    \/ Create(p) \/ Cancel(p)

SpecCancelRace == Init /\ [][NextCancelRace]_vars

\* Orders and cancellations only, one request after the other: user 1 orders one
\* or two items of product 2 and cancels orders; nothing else moves the stock.
NextOrders ==
  \/ Quiet /\ (StartCreate(1, {1}, WorkflowDtos) \/ StartCancel(1))
  \/ Create(1) \/ Cancel(1)

SpecOrders == Init /\ [][NextOrders]_vars

\* POST cart/add starts.
StartAddToCart(p) ==
  \E userId \in Users, addToCartDto \in AddToCartDtos :
    AddToCartStart(p, userId, addToCartDto)

\* PATCH cart/:id starts.
StartUpdateCartItem(p) ==
  \E cartItemId \in CartItemIds, userId \in Users, updateCartItemDto \in UpdateCartItemDtos :
    UpdateCartItemStart(p, cartItemId, userId, updateCartItemDto)

\* The carts, one request after the other: both users add products to their
\* carts and change the quantities of cart rows; nothing moves the stock.
NextCartItems ==
  \/ Quiet /\ (StartAddToCart(1) \/ StartUpdateCartItem(1))
  \/ AddToCart(1) \/ UpdateCartItem(1)

SpecCartItems == Init /\ [][NextCartItems]_vars

\* Requests of every kind arrive at any time and interleave at every await.
Next ==
  \E p \in Procs :
    \/ StartCreate(p, Users, CreateOrderDtos) \/ StartCancel(p)
    \/ StartStatus(p, OrderStatuses, PaymentStatuses, PaymentIds) \/ StartStock(p)
    \/ StartDelete(p) \/ StartPrice(p) \/ StartList(p) \/ StartListAll(p)
    \/ GetOrderStatsStart(p) \/ GetOrderStatsFind(p)
    \/ Create(p) \/ Cancel(p) \/ Status(p) \/ Delete(p)
    \/ FindByUserQuery(p) \/ FindAllQuery(p)
    \/ StartAddToCart(p) \/ StartUpdateCartItem(p) \/ AddToCart(p) \/ UpdateCartItem(p)

Spec == Init /\ [][Next]_vars


(* ------------------------------ claims --------------------------------- *)

\* The steps of the validation loop of create.
ValidationPcs == {"validate_find", "validate_view"}

\* The steps of create between its validation loop and its first write of stock.
ValidatedPcs == {"price_find", "price_view", "order_save"}

\* Some item of the request asks for more than the stock its product has.
ExceedsStock(L) ==
  \E k \in DOMAIN L.orderItems :
    /\ L.orderItems[k].productId \in ProductIds
    /\ L.orderItems[k].quantity > productRepository[L.orderItems[k].productId].stockQuantity

\* C1: with requests run one at a time, a createOrder request with an item, at any
\* position, whose quantity exceeds the stock of its product never gets past the
\* validation loop; the step that meets such an item raises a stock error (400) -
\* "Insufficient stock" when the product is in stock - and no step of the
\* validation loop, the failing one included, changes the Order rows or the
\* OrderItem rows.
C1_InsufficientStockCreatesNothing ==
  /\ [](\A p \in Procs :
          proc[p].op = "create" /\ proc[p].pc \in ValidatedPcs => ~ExceedsStock(proc[p]))
  /\ [][\A p \in Procs :
          LET L == proc[p] IN
          /\ (L.op = "create" /\ L.pc = "validate_view"
                /\ L.orderItems[L.i].quantity > L.product.stockQuantity)
             => /\ proc'[p].pc = "failed"
                /\ proc'[p].res \in {"INSUFFICIENT_STOCK", "OUT_OF_STOCK"}
                /\ IsInStock(L.product) => proc'[p].res = "INSUFFICIENT_STOCK"
          /\ (proc'[p].pc \in ValidationPcs \/ (L.pc \in ValidationPcs /\ proc'[p].pc = "failed"))
             => /\ orderRepository' = orderRepository
                /\ orderItemRepository' = orderItemRepository]_vars

\* C1 witness: with an order already stored, a createOrder has just been rejected
\* for insufficient stock.
C1_Witness ==
  \E p \in Procs :
    /\ proc[p].op = "create" /\ proc[p].pc = "failed"
    /\ proc[p].res = "INSUFFICIENT_STOCK"
    /\ orderRepository # <<>>


\* The quantity of a product in the line items of the given orders.
QuantityOrdered(orderIds, productId) ==
  LET RECURSIVE Sum(_)
      Sum(k) ==
        IF k = 0 THEN 0
        ELSE Sum(k - 1) +
             IF /\ orderItemRepository[k].orderId \in orderIds
                /\ orderItemRepository[k].productId = productId
             THEN orderItemRepository[k].quantity ELSE 0
  IN Sum(Len(orderItemRepository))

\* The orders saved by createOrder calls that have returned successfully.
OrdersOfSuccessfulCreates ==
  {proc[p].savedOrder : p \in {q \in Procs : proc[q].op = "create" /\ proc[q].res = "ok"}}

\* C2: of concurrent createOrder requests for the same product whose combined
\* quantity exceeds the stock, at most one succeeds: the line items of the orders
\* of successful createOrder calls never hold more of a product than its stock.
C2_NoOversell ==
  \A id \in ProductIds : QuantityOrdered(OrdersOfSuccessfulCreates, id) <= InitialStock(id)


\* C3: in every reachable state every product's stockQuantity is at least 0.
C3_StockNeverNegative ==
  \A id \in ProductIds : productRepository[id].stockQuantity >= 0


\* C4: order creation is atomic: a createOrder call that ends in an error leaves
\* no Order row (and so no line item and no stock decrement) of its own behind.
C4_FailedCreateLeavesNothing ==
  \A p \in Procs :
    proc[p].op = "create" /\ proc[p].pc = "failed" => proc[p].savedOrder = 0


\* C5: createOrder succeeds only if every requested product exists and is active
\* (not soft-deleted): whenever a createOrder call returns successfully, every
\* product its request names has a row whose isActive flag is true.
C5_SucceedsOnlyForActiveProducts ==
  [][\A p \in Procs :
       LET L == proc[p] IN
       (L.op = "create" /\ L.pc = "clear_cart" /\ proc'[p].pc = "done")
       => \A k \in DOMAIN L.orderItems :
            /\ L.orderItems[k].productId \in ProductIds
            /\ productRepository[L.orderItems[k].productId].isActive]_vars


\* The steps of create from the save of the Order row to the clearing of the cart.
WritePcs == {"item_save", "stock_find", "stock_view", "stock_save", "clear_cart"}

\* The order is still being written by a createOrder call that has not ended.
BeingCreated(orderId) ==
  \E p \in Procs :
    proc[p].op = "create" /\ proc[p].pc \in WritePcs /\ proc[p].savedOrder = orderId

\* The sum of price * quantity over the persisted line items of the order.
LineItemsTotal(orderId) ==
  LET items == OrderItemsOf(orderId)
  IN SumSeq([k \in DOMAIN items |-> items[k].price * items[k].quantity])

\* C6: for every persisted order, the sum of price * quantity over its persisted
\* line items equals its stored subtotal (stated here only for the orders whose
\* createOrder call has ended, which the claim includes).
C6_SubtotalIsSumOfLineItems ==
  \A o \in DOMAIN orderRepository :
    ~BeingCreated(o) => LineItemsTotal(o) = orderRepository[o].subtotal


\* C7: for every created order totalAmount = subtotal + shippingCost + taxAmount,
\* as stored, and still so after updateStatus, updatePaymentStatus and cancelOrder.
C7_TotalIsSumOfParts ==
  \A o \in DOMAIN orderRepository :
    LET order == orderRepository[o]
    IN order.totalAmount = order.subtotal + order.shippingCost + order.taxAmount

\* C7 witness: an order of 100.01, whose tax of 8.0008 had a fraction of a cent
\* when it was computed, has since been shipped, paid or cancelled.
C7_Witness ==
  \E o \in DOMAIN orderRepository :
    /\ orderRepository[o].subtotal = Dollars(100) + Cents(1)
    /\ \/ orderRepository[o].status # "pending"
       \/ orderRepository[o].paymentStatus # "pending"

\* C8: for every created order shippingCost is 0 when subtotal is above 100.00 and
\* 10.00 otherwise.
C8_ShippingThreshold ==
  \A o \in DOMAIN orderRepository :
    orderRepository[o].shippingCost =
      IF orderRepository[o].subtotal > Dollars(100) THEN 0 ELSE Dollars(10)

\* C8 witness: an order of exactly 100.00 was charged 10.00 and an order of 100.01
\* was charged nothing.
C8_Witness ==
  /\ \E o \in DOMAIN orderRepository :
       /\ orderRepository[o].subtotal = Dollars(100)
       /\ orderRepository[o].shippingCost = Dollars(10)
  /\ \E o \in DOMAIN orderRepository :
       /\ orderRepository[o].subtotal = Dollars(100) + Cents(1)
       /\ orderRepository[o].shippingCost = 0

\* The amount is a whole number of cents.
WholeCents(x) == x % Cents(1) = 0

\* C9: the taxAmount that create hands to orderRepository.save is 8% of the
\* subtotal already rounded to a whole number of cents, and so is the totalAmount.
C9_TaxRoundedWhenComputed ==
  \A p \in Procs :
    (proc[p].op = "create" /\ proc[p].pc = "order_save")
    => LET order == proc[p].order
       IN /\ WholeCents(order.taxAmount)
          /\ WholeCents(order.totalAmount)
          /\ 100 * order.taxAmount - 8 * order.subtotal <= 50 * 100
          /\ 8 * order.subtotal - 100 * order.taxAmount <= 50 * 100

\* The line items that existed before the step are the same after it.
ItemsKept ==
  /\ Len(orderItemRepository') >= Len(orderItemRepository)
  /\ \A k \in DOMAIN orderItemRepository : orderItemRepository'[k] = orderItemRepository[k]

\* The amounts of the orders that existed before the step are the same after it.
AmountsKept ==
  /\ Len(orderRepository') >= Len(orderRepository)
  /\ \A o \in DOMAIN orderRepository :
       /\ orderRepository'[o].subtotal = orderRepository[o].subtotal
       /\ orderRepository'[o].taxAmount = orderRepository[o].taxAmount
       /\ orderRepository'[o].totalAmount = orderRepository[o].totalAmount

\* C10: the price of a line item is the stored price of its product as create
\* reads it in its totals loop, and it is a snapshot: no later step, a change of
\* the product's price included, changes the price of a stored line item or the
\* subtotal, tax or total of a stored order.
C10_PriceSnapshot ==
  [][/\ ItemsKept
     /\ AmountsKept
     /\ \A p \in Procs :
          LET L == proc[p] IN
          /\ (L.op = "create" /\ L.pc = "price_find")
             => proc'[p].product.price = productRepository[L.orderItems[L.i].productId].price
          /\ (L.op = "create" /\ L.pc = "price_view")
             => proc'[p].orderItemsData[L.i].price = L.product.price
          /\ (L.op = "create" /\ L.pc = "item_save")
             => orderItemRepository'[Len(orderItemRepository')].price
                  = L.orderItemsData[L.i].price]_vars

\* C10 witness: a stored line item carries a price that its product no longer has.
C10_Witness ==
  \E k \in DOMAIN orderItemRepository :
    orderItemRepository[k].price # productRepository[orderItemRepository[k].productId].price


\* The quantity of a product over the items of a request.
QuantityRequested(orderItems, productId) ==
  SumSeq([k \in DOMAIN orderItems |->
            IF orderItems[k].productId = productId THEN orderItems[k].quantity ELSE 0])

\* C11: with requests run one at a time, when createOrder returns successfully
\* every product's stockQuantity is what it was when the call started minus the
\* quantity the request orders of it, and its salesCount is what it was plus that
\* quantity.
C11_StockMovesByQuantity ==
  [][\A p \in Procs :
       LET L == proc[p] IN
       (L.op = "create" /\ L.pc = "clear_cart" /\ proc'[p].pc = "done")
       => \A id \in ProductIds :
            /\ productRepository'[id].stockQuantity
                 = L.stockBefore[id].stockQuantity - QuantityRequested(L.orderItems, id)
            /\ productRepository'[id].salesCount
                 = L.stockBefore[id].salesCount + QuantityRequested(L.orderItems, id)]_vars

\* C11 witness: a createOrder for 2 of product 2 has returned successfully; of its
\* stock of 2 nothing is left and 2 are counted as sold.
C11_Witness ==
  \E p \in Procs :
    /\ proc[p].op = "create" /\ proc[p].res = "ok"
    /\ QuantityOrdered({proc[p].savedOrder}, 2) = 2
    /\ QuantityOrdered({proc[p].savedOrder}, 1) = 0
    /\ productRepository[2].stockQuantity = 0
    /\ productRepository[2].salesCount = 2


\* The Cart rows of a user.
CartOf(cart, userId) == {row \in cart : row.userId = userId}

\* C12: when createOrder by user U returns successfully U has no Cart row left,
\* whatever products the rows were for, and no step of createOrder changes a Cart
\* row of another user; before its last step createOrder changes no Cart row.
C12_CartClearedForBuyerOnly ==
  [][\A p \in Procs :
       LET L == proc[p] IN
       /\ (L.op = "create" /\ L.pc = "clear_cart" /\ proc'[p].pc = "done")
          => /\ CartOf(cartRepository', L.userId) = {}
             /\ \A u \in Users \ {L.userId} :
                  CartOf(cartRepository', u) = CartOf(cartRepository, u)
       /\ (L.op = "create" /\ L.pc # "clear_cart" /\ ~Free(p))
          => cartRepository' = cartRepository]_vars

\* C12 witness: user 2, who had products 1 and 2 in the cart, has ordered product 1
\* alone and has an empty cart, while user 1 still has a row.
C12_Witness ==
  \E p \in Procs :
    /\ proc[p].op = "create" /\ proc[p].res = "ok"
    /\ orderRepository[proc[p].savedOrder].userId = 2
    /\ QuantityOrdered({proc[p].savedOrder}, 1) = 1
    /\ QuantityOrdered({proc[p].savedOrder}, 2) = 0
    /\ CartOf(cartRepository, 2) = {}
    /\ CartOf(cartRepository, 1) # {}


\* The statuses in which cancelOrder refuses an order.
NotCancellable == {"delivered", "cancelled"}

\* C13: with requests run one at a time, cancelOrder on an existing order whose
\* status is neither delivered nor cancelled does not fail, and when it returns
\* every product's stockQuantity is what it was when the call started plus the
\* quantity of the order's line items for it, its salesCount is what it was minus
\* that quantity, and the order's status is cancelled.
C13_CancelRestoresStock ==
  [][\A p \in Procs :
       LET L == proc[p] IN
       /\ (/\ L.op = "cancel" /\ L.pc = "cancel_find"
           /\ L.orderId \in DOMAIN orderRepository
           /\ orderRepository[L.orderId].status \notin NotCancellable)
          => proc'[p].pc \in {"restore_find", "cancel_save"}
       /\ (L.op = "cancel" /\ L.pc \notin {"cancel_find", "done", "failed"})
          => proc'[p].pc # "failed"
       /\ (L.op = "cancel" /\ L.pc = "cancel_save" /\ proc'[p].pc = "done")
          => /\ orderRepository'[L.orderId].status = "cancelled"
             /\ \A id \in ProductIds :
                  /\ productRepository'[id].stockQuantity
                       = L.stockBefore[id].stockQuantity + QuantityOrdered({L.orderId}, id)
                  /\ productRepository'[id].salesCount
                       = L.stockBefore[id].salesCount - QuantityOrdered({L.orderId}, id)]_vars

\* C13 witness: cancelOrder of a shipped order for 2 of product 2 has put the 2
\* back into the stock and is about to save the order as cancelled.
C13_Witness ==
  \E p \in Procs :
    /\ proc[p].op = "cancel" /\ proc[p].pc = "cancel_save"
    /\ proc[p].order.status = "shipped"
    /\ QuantityOrdered({proc[p].orderId}, 2) = 2
    /\ proc[p].stockBefore[2].stockQuantity = 0
    /\ productRepository[2].stockQuantity = 2
    /\ productRepository[2].salesCount = 0


\* C14: cancelOrder on an order whose status is delivered or cancelled fails with
\* INVALID_STATE, and neither that step nor the arrival of the request changes any
\* row: the order, its line items and every product are as they were.
C14_RefusedCancelChangesNothing ==
  [][\A p \in Procs :
       LET L == proc[p] IN
       /\ (/\ L.op = "cancel" /\ L.pc = "cancel_find"
           /\ L.orderId \in DOMAIN orderRepository
           /\ orderRepository[L.orderId].status \in NotCancellable)
          => /\ proc'[p].pc = "failed" /\ proc'[p].res = "INVALID_STATE"
             /\ orderRepository' = orderRepository
             /\ orderItemRepository' = orderItemRepository
             /\ productRepository' = productRepository
       /\ (Free(p) /\ proc'[p].op = "cancel" /\ proc'[p].pc = "cancel_find")
          => db' = db]_vars

\* C14 witness: cancelOrder has been refused for the one order there is, which is
\* delivered and whose 2 of product 2 are still out of the stock.
C14_Witness ==
  \E p \in Procs :
    /\ proc[p].op = "cancel" /\ proc[p].res = "INVALID_STATE"
    /\ Len(orderRepository) = 1
    /\ orderRepository[1].status = "delivered"
    /\ QuantityOrdered({1}, 2) = 2
    /\ productRepository[2].stockQuantity = 0

\* C14 witness of the other refused status is the same call on a cancelled order.
C14_WitnessCancelled ==
  \E p \in Procs :
    /\ proc[p].op = "cancel" /\ proc[p].res = "INVALID_STATE"
    /\ Len(orderRepository) = 1
    /\ orderRepository[1].status = "cancelled"


\* C15: every persisted line item has a quantity of at least 1.
C15_QuantityPositive ==
  \A k \in DOMAIN orderItemRepository : orderItemRepository[k].quantity >= 1

\* C16: for every persisted order subtotal, shippingCost, taxAmount and
\* totalAmount are all at least 0.
C16_AmountsNonNegative ==
  \A o \in DOMAIN orderRepository :
    /\ orderRepository[o].subtotal >= 0
    /\ orderRepository[o].shippingCost >= 0
    /\ orderRepository[o].taxAmount >= 0
    /\ orderRepository[o].totalAmount >= 0


\* Every order but the given one is as it was before the step.
OtherOrdersKept(orderId) ==
  /\ Len(orderRepository') = Len(orderRepository)
  /\ \A o \in DOMAIN orderRepository \ {orderId} : orderRepository'[o] = orderRepository[o]

\* C17: with requests run one at a time, updateStatus on an existing order does
\* not fail whatever the order's status is, and its save leaves the order with
\* the requested status and every other column as it was; no step of the call
\* changes another order, a line item, a product or a cart.
C17_StatusOverwrittenOnly ==
  [][\A p \in Procs :
       LET L == proc[p] IN
       /\ (L.op = "updateStatus" /\ L.pc = "status_find"
             /\ L.orderId \in DOMAIN orderRepository)
          => proc'[p].pc = "status_save" /\ db' = db
       /\ (L.op = "updateStatus" /\ L.pc = "status_save")
          => /\ proc'[p].pc = "done"
             /\ orderRepository'[L.orderId] =
                  [orderRepository[L.orderId] EXCEPT !.status = L.arg]
             /\ OtherOrdersKept(L.orderId)
             /\ orderItemRepository' = orderItemRepository
             /\ productRepository' = productRepository
             /\ cartRepository' = cartRepository]_vars

\* C17 witness: the one order there is, for 2 of product 2, was cancelled (its
\* stock is back) and updateStatus has since made it pending again.
C17_Witness ==
  \E p \in Procs :
    /\ proc[p].op = "updateStatus" /\ proc[p].res = "ok"
    /\ Len(orderRepository) = 1
    /\ orderRepository[1].status = "pending"
    /\ QuantityOrdered({1}, 2) = 2
    /\ productRepository[2].stockQuantity = 2
    /\ productRepository[2].salesCount = 0

\* C18: updatePaymentStatus on an existing order leaves it with the requested
\* payment status, with the supplied payment reference when the request has one
\* and the stored reference when it has none, and with every other column as it
\* was; it changes no other order and no line item.
C18_PaymentReferenceSetWhenSupplied ==
  [][\A p \in Procs :
       LET L == proc[p] IN
       (L.op = "updatePaymentStatus" /\ L.pc = "payment_save")
       => /\ proc'[p].pc = "done"
          /\ orderRepository'[L.orderId] =
               [orderRepository[L.orderId] EXCEPT
                  !.paymentStatus = L.arg,
                  !.paymentId = IF L.arg2 = "undefined" THEN @ ELSE L.arg2]
          /\ OtherOrdersKept(L.orderId)
          /\ orderItemRepository' = orderItemRepository]_vars


\* C19: orders are never removed: every step of createOrder, cancelOrder,
\* updateStatus and updatePaymentStatus keeps every Order row there is, with its
\* owner, and every line item as it is; cancelOrder changes the status alone.
C19_OrdersNeverRemoved ==
  [][/\ Len(orderRepository') >= Len(orderRepository)
     /\ \A o \in DOMAIN orderRepository :
          orderRepository'[o].userId = orderRepository[o].userId
     /\ ItemsKept
     /\ \A p \in Procs :
          LET L == proc[p] IN
          (L.op = "cancel" /\ L.pc = "cancel_save")
          => orderRepository' =
               [orderRepository EXCEPT ![L.orderId].status = "cancelled"]]_vars

\* C19 witness: two orders exist, the first cancelled, and each still has the
\* line item it was created with.
C19_Witness ==
  /\ Len(orderRepository) = 2
  /\ orderRepository[1].status = "cancelled"
  /\ Len(OrderItemsOf(1)) = 1
  /\ Len(OrderItemsOf(2)) = 1
  /\ \E p \in Procs : proc[p].op = "create" /\ proc[p].res = "ok" /\ proc[p].savedOrder = 2


\* The request has the field and the order's column does not have its value.
FilteredOut(filterDto, f, value) == f \in DOMAIN filterDto /\ filterDto[f] # value

\* C20: the Order row createOrder(userId, ...) saves is owned by userId, and a
\* listing returned to a user holds only orders that user owns, so none of
\* another user, and its total is the number of that user's orders that match
\* the status and payment status of the filter.
C20_ListingScopedToOwner ==
  /\ [](\A p \in Procs :
          (proc[p].op = "findByUser" /\ proc[p].pc = "done")
          => LET L == proc[p] IN
             /\ \A k \in DOMAIN L.listing.orders :
                  /\ L.listing.orders[k] \in DOMAIN orderRepository
                  /\ orderRepository[L.listing.orders[k]].userId = L.userId
             /\ L.listing.total =
                  Cardinality({o \in DOMAIN orderRepository :
                     /\ orderRepository[o].userId = L.userId
                     /\ ~FilteredOut(L.dto, "status", orderRepository[o].status)
                     /\ ~FilteredOut(L.dto, "paymentStatus", orderRepository[o].paymentStatus)}))
  /\ [][\A p \in Procs :
          (proc[p].op = "create" /\ proc[p].pc = "order_save")
          => /\ Len(orderRepository') = Len(orderRepository) + 1
             /\ orderRepository'[Len(orderRepository')].userId = proc[p].userId]_vars

\* C20 witness: each of the two users has an order, and user 1 has listed theirs:
\* one order, their own, out of a total of one.
C20_Witness ==
  \E p \in Procs :
    /\ proc[p].op = "findByUser" /\ proc[p].pc = "done" /\ proc[p].userId = 1
    /\ Len(orderRepository) = 2
    /\ \E o \in DOMAIN orderRepository : orderRepository[o].userId = 2
    /\ Len(proc[p].listing.orders) = 1
    /\ orderRepository[proc[p].listing.orders[1]].userId = 1
    /\ proc[p].listing.total = 1


\* The steps at which a listing runs its query.
ListingPcs == {"list_query", "list_all_query"}

\* C21: the listings run their query only with a page of at least 1 and a limit
\* between 1 and 100 (1 and 20 when absent), so never with a negative offset.
C21_ListingsRunWithValidPage ==
  \A p \in Procs :
    proc[p].pc \in ListingPcs
    => /\ Page(proc[p].dto) >= 1
       /\ Limit(proc[p].dto) >= 1
       /\ Limit(proc[p].dto) <= 100
       /\ Offset(proc[p].dto) >= 0


\* The number of orders that have the status.
OrdersWithStatus(status) ==
  Cardinality({o \in DOMAIN orderRepository : orderRepository[o].status = status})

\* The sum of f over the elements of the finite set S.
RECURSIVE SumOver(_, _)
SumOver(S, f) ==
  IF S = {} THEN 0 ELSE LET x == CHOOSE y \in S : TRUE IN f[x] + SumOver(S \ {x}, f)

\* C22: the statistics returned over the orders there are, cancelled and refunded
\* ones included, give totalOrders as their number, totalRevenue as the sum of
\* their totalAmount, averageOrderValue as totalRevenue / totalOrders (0 with no
\* order), and for every status the number of orders that have it, counts that
\* sum to totalOrders.
C22_StatsOverAllOrders ==
  \A p \in Procs :
    (proc[p].op = "getOrderStats" /\ proc[p].pc = "done")
    => LET stats == proc[p].stats
           avg == stats.averageOrderValue
       IN /\ stats.totalOrders = Len(orderRepository)
          /\ stats.totalRevenue =
               SumOver(DOMAIN orderRepository,
                       [o \in DOMAIN orderRepository |-> orderRepository[o].totalAmount])
          /\ avg.den > 0
          /\ avg.num * stats.totalOrders = stats.totalRevenue * avg.den
          /\ stats.totalOrders = 0 => avg.num = 0
          /\ \A status \in OrderStatuses :
               IF status \in DOMAIN stats.ordersByStatus
               THEN stats.ordersByStatus[status] = OrdersWithStatus(status)
               ELSE OrdersWithStatus(status) = 0
          /\ SumOver(DOMAIN stats.ordersByStatus, stats.ordersByStatus) = stats.totalOrders

\* C22 witness: statistics over the one order there is, which is cancelled: one
\* order, its total as the revenue and as the average, and one order under
\* cancelled.
C22_Witness ==
  \E p \in Procs :
    /\ proc[p].op = "getOrderStats" /\ proc[p].pc = "done"
    /\ Len(orderRepository) = 1
    /\ orderRepository[1].status = "cancelled"
    /\ orderRepository[1].totalAmount > 0
    /\ proc[p].stats.totalOrders = 1
    /\ proc[p].stats.totalRevenue = orderRepository[1].totalAmount
    /\ proc[p].stats.averageOrderValue = Quotient(orderRepository[1].totalAmount, 1)
    /\ proc[p].stats.ordersByStatus["cancelled"] = 1


\* The first n items of a request.
FirstItems(orderItems, n) == SubSeq(orderItems, 1, n)

\* Every product's stock is what the call started from less the first n items.
DecrementsApplied(L, n) ==
  \A id \in ProductIds :
    productRepository[id].stockQuantity
      = L.stockBefore[id].stockQuantity - QuantityRequested(FirstItems(L.orderItems, n), id)

\* The order of the call has the line items of the first n items of the request,
\* in request order, and no other.
ItemsPersisted(L, n) ==
  LET items == OrderItemsOf(L.savedOrder)
  IN /\ Len(items) = n
     /\ \A k \in 1..n : /\ items[k].productId = L.orderItems[k].productId
                        /\ items[k].quantity = L.orderItems[k].quantity

\* C23: within one createOrder call (no other request running) the Order row is
\* saved before any line item; the line item of item i is saved when the items
\* before it have their line items and decrements, and its decrement is saved
\* when the line item is there; the cart is cleared only when every item has its
\* line item and its decrement; and a call that fails leaves the cart as it is.
C23_WritesInOrder ==
  [][\A p \in Procs :
       LET L == proc[p] IN
       L.op = "create" =>
         /\ (L.pc = "item_save")
            => /\ L.savedOrder \in DOMAIN orderRepository
               /\ ItemsPersisted(L, L.i - 1)
               /\ DecrementsApplied(L, L.i - 1)
         /\ (L.pc = "stock_save")
            => /\ ItemsPersisted(L, L.i)
               /\ DecrementsApplied(L, L.i - 1)
         /\ (orderItemRepository' # orderItemRepository) => L.pc = "item_save"
         /\ (cartRepository' # cartRepository)
            => /\ L.pc = "clear_cart"
               /\ ItemsPersisted(L, Len(L.orderItems))
               /\ DecrementsApplied(L, Len(L.orderItems))
         /\ (proc'[p].pc = "failed") => cartRepository' = cartRepository]_vars

\* C23 witness: a createOrder of two items has saved both line items and both
\* decrements and is about to clear the cart, which still has the user's rows.
C23_Witness ==
  \E p \in Procs :
    /\ proc[p].op = "create" /\ proc[p].pc = "clear_cart"
    /\ Len(proc[p].orderItems) = 2
    /\ proc[p].orderItems[1].quantity = 1 /\ proc[p].orderItems[2].quantity = 1
    /\ ItemsPersisted(proc[p], 2)
    /\ DecrementsApplied(proc[p], 2)
    /\ CartOf(cartRepository, proc[p].userId) # {}


\* The three columns of a product that updateStock is about.
StockColumns(product) ==
  <<product.stockQuantity, product.salesCount, product.status>>

\* C24: with requests run one at a time, updateStock(id, quantity), called by the
\* stock API or by createOrder, fails with an insufficient-stock error and leaves
\* stockQuantity, salesCount and status of the product as they are when quantity
\* exceeds the stock; otherwise it saves stockQuantity less quantity, salesCount
\* plus quantity, and status out_of_stock if the stock saved is 0 and the status
\* it found if not.  No other product's three columns change.
C24_UpdateStockChecksThenTakes ==
  [][\A p \in Procs :
       LET L == proc[p] IN
       (L.pc \in {"stock_view", "stock_save"}) =>
         LET itemData == L.orderItemsData[L.i]
             id == itemData.productId
             quantity == itemData.quantity
             product == productRepository[id]
         IN /\ \A other \in ProductIds \ {id} :
                 StockColumns(productRepository'[other]) = StockColumns(productRepository[other])
            /\ (L.pc = "stock_view")
               => /\ StockColumns(productRepository'[id]) = StockColumns(product)
                  /\ IF quantity > product.stockQuantity
                     THEN proc'[p].pc = "failed" /\ proc'[p].res = "INSUFFICIENT_STOCK"
                     ELSE proc'[p].pc = "stock_save"
            /\ (L.pc = "stock_save")
               => /\ proc'[p].pc # "failed"
                  /\ productRepository'[id].stockQuantity = product.stockQuantity - quantity
                  /\ productRepository'[id].salesCount = product.salesCount + quantity
                  /\ productRepository'[id].status =
                       IF product.stockQuantity - quantity = 0 THEN "out_of_stock"
                       ELSE product.status]_vars

\* C24 witness: PATCH products/2/stock with quantity 2 has returned: nothing is
\* left of the 2 in stock, 2 are counted as sold and the product is out_of_stock.
C24_Witness ==
  \E p \in Procs :
    /\ proc[p].op = "updateStock" /\ proc[p].res = "ok"
    /\ orderRepository = <<>>
    /\ productRepository[2].stockQuantity = 0
    /\ productRepository[2].salesCount = 2
    /\ productRepository[2].status = "out_of_stock"

\* C24 witness of the refusal: the stock API has refused a quantity above the stock.
C24_WitnessRefused ==
  \E p \in Procs :
    /\ proc[p].op = "updateStock" /\ proc[p].res = "INSUFFICIENT_STOCK"
    /\ orderRepository = <<>>


\* C25: stock is restored at most once for an order: where the stock is moved
\* only by createOrder and cancelOrder of orders with positive quantities, what
\* cancellations add back to a product never exceeds what the orders took from
\* it, so no product ever has more than its initial stock.
C25_StockRestoredAtMostOnce ==
  \A id \in ProductIds : productRepository[id].stockQuantity <= InitialStock(id)


\* C26: a product has status out_of_stock only while its stockQuantity is 0:
\* whenever no request is running, and so once cancelOrder has given back the
\* stock that a createOrder took to 0, a product with status out_of_stock has
\* stockQuantity 0 (a product with stock is in stock and can be ordered again).
C26_OutOfStockOnlyAtZero ==
  Quiet => \A id \in ProductIds :
             productRepository[id].status = "out_of_stock"
               => productRepository[id].stockQuantity = 0

\* The quantity of a product in the persisted line items of the orders that are
\* not cancelled.
QuantityHeld(productId) ==
  SumSeq([k \in DOMAIN orderItemRepository |->
            IF /\ orderItemRepository[k].productId = productId
               /\ orderRepository[orderItemRepository[k].orderId].status # "cancelled"
            THEN orderItemRepository[k].quantity ELSE 0])

\* C27: stock conservation: with the stock moved only by createOrder and
\* cancelOrder, whenever no request is running, for every product the
\* stockQuantity plus the quantity of the product in the persisted line items of
\* the orders that are not cancelled is the product's initial stockQuantity.
C27_StockConserved ==
  Quiet => \A id \in ProductIds :
             productRepository[id].stockQuantity + QuantityHeld(id) = InitialStock(id)


\* C28: every persisted order has at least one line item: whenever no request
\* is running, every order in the database has a line item (createOrder with an
\* empty item list creates no order).
C28_OrdersHaveItems ==
  Quiet => \A orderId \in DOMAIN orderRepository : OrderItemsOf(orderId) # <<>>


\* C29: a createOrder that is rejected during the validation pass writes nothing
\* to any product row: the step of the validation pass on which the call is
\* rejected leaves every product row as it was.
C29_RejectedCreateWritesNoProduct ==
  [][\A p \in Procs :
       /\ proc[p].op = "create"
       /\ proc[p].pc \in {"validate_find", "validate_view"}
       /\ proc'[p].pc = "failed"
       => productRepository' = productRepository]_vars


\* C30: with the stock unchanged, after any sequence of addToCart and
\* updateCartItem calls the quantity of every cart row is at most the
\* stockQuantity of its product.
C30_CartWithinStock ==
  \A row \in cartRepository :
    row.quantity <= productRepository[row.productId].stockQuantity

====
